---- MODULE Spec2Model ----
(***************************************************************************)
(* broomrocket-server (src/server.py): one ClientHandler thread serving    *)
(* one TCP connection, its MessageHandler, the SocketEngine facade and the *)
(* SocketLoadedMesh / SocketCoordinate proxy objects.                      *)
(*                                                                         *)
(* The thread is modelled from one blocking socket.recv to the next: every *)
(* action is the code that runs between two blocking points, exceptions    *)
(* and the finally clause of run included.  The peer and the external      *)
(* pipeline (broomrocket.run) are the environment.  An exception raised    *)
(* inside an engine call or a coordinate write is taken to leave           *)
(* broomrocket.run, as an uncaught exception does.                         *)
(***************************************************************************)
EXTENDS Integers, Sequences, FiniteSets, TLC

(* ------------------------------ bounds -------------------------------- *)
\* calls of send_request the pipeline makes while handling one request
MaxRequests == 3
\* SocketCoordinate objects allocated on one connection
MaxCoords == 2
\* connections main accepts, where several are served at once
MaxSessions == 2
\* calls of send_request per session, where several are served at once
MaxNested == 1

(* --------------------------- program constants ------------------------ *)
\* client_socket.recv(4), struct "<l": the length prefix is 4 bytes
PrefixLen == 4

\* values the pipeline writes to a coordinate component, and coordinates it assigns
Vals == {0, 5}
Coordinates == {<<1, 2, 3>>}
NameSeq == <<"a", "b">>
Names == {NameSeq[i] : i \in 1..Len(NameSeq)}
Origin == <<0, 0, 0>>
\* names the pipeline asks the engine to load
LoadNames == {"a"}

None == [type |-> "None"]

(* ----------------------------- envelopes ------------------------------ *)
RunData == [k |-> "run"]
LoadData(n) == [k |-> "load_gltf", name |-> n]
MoveData(n, t) == [k |-> "move_mesh", name |-> n, translation |-> t]
ObjectData(n, t) == [k |-> "object", name |-> n, translation |-> t]
AckData == [k |-> "ack"]
ResultData(s, m) == [k |-> "result", status |-> s, message |-> m]

Envelope(t, i, d) == [type |-> t, id |-> i, data |-> d]

Min(a, b) == IF a < b THEN a ELSE b
Take(s, n) == SubSeq(s, 1, n)
Drop(s, n) == SubSeq(s, n + 1, Len(s))
(* ------------------------------ frame codec --------------------------- *)
\* The JSON text of an envelope is abstracted to one byte per leaf value, in
\* a fixed field order; the 4-byte length prefix is modelled exactly.
TypeSeq == <<"request", "response">>
KindSeq == <<"run", "load_gltf", "move_mesh", "object", "ack", "result">>
StatusSeq == <<"ok", "error">>
MessageSeq == <<"Executed successfully.", "PipelineError", "KeyError",
                "TypeError", "JSONDecodeError", "OSError">>

Code(table, v) == CHOOSE i \in 1..Len(table) : table[i] = v

\* json.dumps(message["data"])
DataBytes(d) ==
    <<Code(KindSeq, d.k)>> \o
    CASE d.k = "load_gltf" -> <<Code(NameSeq, d.name)>>
      [] d.k \in {"move_mesh", "object"} -> <<Code(NameSeq, d.name)>> \o d.translation
      [] d.k = "result" -> <<Code(StatusSeq, d.status), Code(MessageSeq, d.message)>>
      [] OTHER -> <<>>

\* json.dumps(message).encode() (line 260, 262)
json_dumps(message) == <<Code(TypeSeq, message.type), message.id>> \o DataBytes(message.data)

JSONDecodeError == [type |-> "JSONDecodeError"]

\* bytes a value of kind k takes after the kind byte
FieldCount(k) ==
    CASE k = "load_gltf" -> 1
      [] k \in {"move_mesh", "object"} -> 4
      [] k = "result" -> 2
      [] OTHER -> 0

DataOf(b) ==
    LET k == KindSeq[b[1]] IN
    CASE k = "load_gltf" -> LoadData(NameSeq[b[2]])
      [] k = "move_mesh" -> MoveData(NameSeq[b[2]], <<b[3], b[4], b[5]>>)
      [] k = "object" -> ObjectData(NameSeq[b[2]], <<b[3], b[4], b[5]>>)
      [] k = "result" -> ResultData(StatusSeq[b[2]], MessageSeq[b[3]])
      [] k = "run" -> RunData
      [] OTHER -> AckData

WellFormed(b) ==
    /\ Len(b) >= 3
    /\ b[1] \in 1..Len(TypeSeq)
    /\ b[3] \in 1..Len(KindSeq)
    /\ Len(b) = 3 + FieldCount(KindSeq[b[3]])
    /\ KindSeq[b[3]] \in {"load_gltf", "move_mesh", "object"} => b[4] \in 1..Len(NameSeq)
    /\ KindSeq[b[3]] = "result" => b[4] \in 1..Len(StatusSeq) /\ b[5] \in 1..Len(MessageSeq)

\* json.loads(message_data) (line 274)
json_loads(b) ==
    IF WellFormed(b)
    THEN Envelope(TypeSeq[b[1]], b[2], DataOf(Drop(b, 2)))
    ELSE JSONDecodeError

\* struct.pack("<l", n) (line 261): little-endian two's complement, 32 bits
struct_pack(n) ==
    <<n % 256, (n \div 256) % 256, (n \div 65536) % 256, (n \div 16777216) % 256>>

\* struct.unpack("<l", data) (line 269)
struct_unpack(data) ==
    LET top == IF data[4] >= 128 THEN data[4] - 256 ELSE data[4] IN
    data[1] + 256 * data[2] + 65536 * data[3] + 16777216 * top

\* the bytes ClientHandler.send hands to the socket for one message
Frame(message) == struct_pack(Len(json_dumps(message))) \o json_dumps(message)
(* -------------------------------- state ------------------------------- *)
Waiting == [type |-> "waiting"]

VARIABLES
    inbuf,          \* bytes the peer has sent and recv has not yet returned
    inflight,       \* the envelope of the whole frame the peer last sent, or None
    peerClosed,     \* the peer has closed its end of the connection
    peerFrames,     \* number of frames the peer has sent
    lateRequests,   \* request frames the peer sent after client_socket was closed
    sock,           \* client_socket: "open", "broken" (a send raised), "closed"
    out,            \* bytes written to the connection by successful sends
    pc,             \* where the ClientHandler thread is
    caller,         \* who called read_next: "run", "load_gltf", "move_mesh"
    message_length, \* read_next: the unpacked length prefix
    message_data,   \* read_next: the payload bytes accumulated so far
    lastRead,       \* what the last read_next returned (JSONDecodeError: raised),
                    \* Waiting from the call of read_next until it ends
    message,        \* on_request: the message whose pipeline run was started
    pipeline,       \* outcome of broomrocket.run: "none", "running", "ok" or the exception
    nIssued,        \* number of send_request calls made (message_ids generated)
    lastIssued,     \* the envelope the last send_request call passed to send
    meshes,         \* SocketLoadedMesh objects: [name, translation (a coordinate)]
    coords,         \* SocketCoordinate objects: [x, y, z, change_callback (a mesh),
                    \* by (who set change_callback: "__init__", line 32, or "setter", line 83)]
    exc             \* the exception that left run, "" while there is none

\* main's accept loop with several connections, frame by frame
VARIABLES
    threads,        \* main's list `threads`: the ClientHandler objects, each
                    \* [client_socket, message_handler, pc, message, got, n]
    handlers,       \* the MessageHandler objects: [message_writer, message_reader, engine]
    sockets         \* the accepted sockets: [toServer, toPeer, closed, peerClosed, sent]

mainVars == <<threads, handlers, sockets>>

sessionVars == <<inbuf, inflight, peerClosed, peerFrames, lateRequests, sock, out, pc,
                 caller, message_length, message_data, lastRead, message, pipeline,
                 nIssued, lastIssued, meshes, coords, exc>>

vars == <<inbuf, inflight, peerClosed, peerFrames, lateRequests, sock, out, pc,
          caller, message_length, message_data, lastRead, message, pipeline,
          nIssued, lastIssued, meshes, coords, exc, threads, handlers, sockets>>

peerVars == <<inbuf, inflight, peerClosed, peerFrames, lateRequests>>
readVars == <<message_length, message_data>>
heapVars == <<meshes, coords>>
threadVars == <<sock, out, pc, caller, message, pipeline, nIssued, lastIssued,
                meshes, coords, exc>>

Init ==
    /\ inbuf = <<>>
    /\ inflight = None
    /\ peerClosed = FALSE
    /\ peerFrames = 0
    /\ lateRequests = 0
    /\ sock = "open"
    /\ out = <<>>
    /\ pc = "read_prefix"
    /\ caller = "run"
    /\ message_length = 0
    /\ message_data = <<>>
    /\ lastRead = Waiting
    /\ message = None
    /\ pipeline = "none"
    /\ nIssued = 0
    /\ lastIssued = None
    /\ meshes = <<>>
    /\ coords = <<>>
    /\ exc = ""
    /\ threads = <<>>
    /\ handlers = <<>>
    /\ sockets = <<>>

(* -------------------------------- peer -------------------------------- *)
PeerData == {RunData, AckData} \cup {ObjectData(n, Origin) : n \in Names}
\* ids the peer puts in its envelopes: 0 and 9, which are no message_id of
\* this side, until it has seen a request; then 0 and that request's id
PeerIds == IF nIssued = 0 THEN {0, 9} ELSE {0, nIssued}
PeerEnvelopes == {Envelope(t, i, d) : t \in {"request", "response"}, i \in PeerIds, d \in PeerData}
\* the peer sends one frame for the request it makes and one for each request
\* it receives
MaxPeerFrames == MaxRequests + 1
\* read_next does not look at the payload before it is complete: the frames
\* the peer cuts short are one of each length
CutEnvelopes == {Envelope("response", 0, AckData), Envelope("response", 0, ObjectData("a", Origin))}

\* The thread sees the stream through recv alone, so bytes that arrive early
\* are bytes its next recv finds: the peer is taken to send a frame when the
\* thread waits in read_next and has received all that was sent before.
PeerMaySend ==
    /\ ~peerClosed
    /\ peerFrames < MaxPeerFrames
    /\ sock # "closed"
    /\ pc = "read_prefix"
    /\ inbuf = <<>>

\* the peer writes one whole frame
PeerSend(env) ==
    /\ UNCHANGED mainVars
    /\ PeerMaySend
    /\ inbuf' = Frame(env)
    /\ inflight' = env
    /\ peerFrames' = peerFrames + 1
    /\ UNCHANGED <<peerClosed, lateRequests, threadVars, readVars, lastRead>>

\* the peer writes the first k bytes of a frame and closes the connection
PeerSendTruncated(env, k) ==
    /\ UNCHANGED mainVars
    /\ PeerMaySend
    /\ k \in 1..(Len(Frame(env)) - 1)
    /\ inbuf' = Take(Frame(env), k)
    /\ peerFrames' = peerFrames + 1
    /\ peerClosed' = TRUE
    /\ UNCHANGED <<inflight, lateRequests, threadVars, readVars, lastRead>>

\* the peer writes a length prefix n <= 0 and no payload
PeerSendEmpty(n) ==
    /\ UNCHANGED mainVars
    /\ PeerMaySend
    /\ inbuf' = struct_pack(n)
    /\ peerFrames' = peerFrames + 1
    /\ UNCHANGED <<inflight, peerClosed, lateRequests, threadVars, readVars, lastRead>>

\* the peer writes a frame after client_socket.close(): it reaches nobody
PeerSendLate(env) ==
    /\ UNCHANGED mainVars
    /\ ~peerClosed
    /\ peerFrames < MaxPeerFrames
    /\ sock = "closed"
    /\ peerFrames' = peerFrames + 1
    /\ lateRequests' = lateRequests + (IF env.type = "request" THEN 1 ELSE 0)
    /\ UNCHANGED <<inbuf, inflight, peerClosed, threadVars, readVars, lastRead>>

\* the peer closes the connection
PeerClose ==
    /\ UNCHANGED mainVars
    /\ ~peerClosed
    /\ peerClosed' = TRUE
    /\ UNCHANGED <<inbuf, inflight, peerFrames, lateRequests, threadVars, readVars,
                   lastRead>>

(* ------------------------- the ClientHandler thread ------------------- *)
\* The part of the state the thread's code reads and writes, as one record.
Cur ==
    [pc |-> pc, caller |-> caller, sock |-> sock, out |-> out, exc |-> exc,
     pipeline |-> pipeline, message |-> message, nIssued |-> nIssued,
     lastIssued |-> lastIssued,
     meshes |-> meshes, coords |-> coords]

Apply(t) ==
    /\ pc' = t.pc
    /\ caller' = t.caller
    /\ sock' = t.sock
    /\ out' = t.out
    /\ exc' = t.exc
    /\ pipeline' = t.pipeline
    /\ message' = t.message
    /\ nIssued' = t.nIssued
    /\ lastIssued' = t.lastIssued
    /\ meshes' = t.meshes
    /\ coords' = t.coords

\* a send that writes the text before the length prefix
send_text_first(t, msg) ==
    LET text == json_dumps(msg)
        prefix == struct_pack(Len(text))
    IN  IF t.sock # "open"
        THEN {[t |-> t, ok |-> FALSE]}
        ELSE {[t |-> [t EXCEPT !.out = @ \o text \o prefix], ok |-> TRUE]}

\* ClientHandler.send (lines 259-262): two socket sends, prefix then text.
\* A send on a closed socket raises; once a send has raised, later ones do
\* too; while the peer has closed, a send either is accepted or raises.
send(t, msg) ==
    LET text == json_dumps(msg)
        prefix == struct_pack(Len(text))
    IN  IF t.sock # "open"
        THEN {[t |-> t, ok |-> FALSE]}
        ELSE {[t |-> [t EXCEPT !.out = @ \o prefix \o text], ok |-> TRUE]}
             \cup (IF peerClosed
                   THEN {[t |-> [t EXCEPT !.sock = "broken"], ok |-> FALSE],
                         [t |-> [t EXCEPT !.sock = "broken", !.out = @ \o prefix],
                          ok |-> FALSE]}
                   ELSE {})

\* a run that closes the socket after the try block, not in a finally clause
run_close_on_return(t, e) ==
    [t EXCEPT !.sock = IF e = "" THEN "closed" ELSE @,
              !.pc = IF e = "" THEN "done" ELSE "raised",
              !.exc = e, !.caller = "", !.meshes = <<>>, !.coords = <<>>]

\* ClientHandler.run's finally clause (lines 256-257); e is the exception
\* leaving the try block, "" when on_request returned.  The pipeline's
\* objects are unreachable once run has ended.
run_finally(t, e) ==
    [t EXCEPT !.sock = "closed", !.pc = IF e = "" THEN "done" ELSE "raised",
              !.exc = e, !.caller = "", !.meshes = <<>>, !.coords = <<>>]

\* on_request's except clause (lines 234-241), message not None
on_request_except(t, e) ==
    {run_finally(r.t, IF r.ok THEN "" ELSE "OSError") :
        r \in send(t, Envelope("response", t.message.id, ResultData("error", e)))}

\* on_request without its except clause: the failure leaves on_request
pipeline_raise_propagates(t, e) == {run_finally([t EXCEPT !.pipeline = e], e)}

\* broomrocket.run raised e (lines 223-228)
pipeline_raise(t, e) == on_request_except([t EXCEPT !.pipeline = e], e)

\* an on_request whose try block raises after it has sent the success response
on_request_return_then_raise(t) ==
    UNION {on_request_except(r.t, "OSError") :
            r \in send([t EXCEPT !.pipeline = "ok"],
                       Envelope("response", t.message.id,
                                ResultData("ok", "Executed successfully.")))}

\* broomrocket.run returned (lines 229-233)
on_request_return(t) ==
    UNION {IF r.ok THEN {run_finally(r.t, "")} ELSE on_request_except(r.t, "OSError") :
            r \in send([t EXCEPT !.pipeline = "ok"],
                       Envelope("response", t.message.id,
                                ResultData("ok", "Executed successfully.")))}

\* MessageHandler.on_request entered with m (lines 221-226)
on_request(t, m) ==
    IF m = None
    THEN {run_finally([t EXCEPT !.message = None], "TypeError")}
    ELSE IF m.data.k # "run"
    THEN on_request_except([t EXCEPT !.message = m], "KeyError")
    ELSE {[t EXCEPT !.message = m, !.pc = "pipeline", !.pipeline = "running",
                    !.caller = ""]}

\* str(uuid.uuid4()) (line 213): a fresh id at every call
uuid4(t) == t.nIssued + 1

\* a send_request that writes its request again when the first send went through
send_request_retry(t, data, kind) ==
    LET env == Envelope("request", uuid4(t), data)
        t1 == [t EXCEPT !.nIssued = @ + 1, !.lastIssued = env]
    IN  UNION {IF r.ok
               THEN {[r2.t EXCEPT !.pc = "read_prefix", !.caller = kind] :
                        r2 \in {x \in send(r.t, env) : x.ok}}
               ELSE pipeline_raise(r.t, "OSError") :
                r \in send(t1, env)}

\* a send_request that does not wait for the response
send_request_no_wait(t, data, kind) ==
    LET env == Envelope("request", uuid4(t), data)
        t1 == [t EXCEPT !.nIssued = @ + 1, !.lastIssued = env]
    IN  UNION {IF r.ok THEN {r.t} ELSE pipeline_raise(r.t, "OSError") :
                r \in send(t1, env)}

\* MessageHandler.send_request up to its read_next (lines 212-218)
send_request(t, data, kind) ==
    LET env == Envelope("request", uuid4(t), data)
        t1 == [t EXCEPT !.nIssued = @ + 1, !.lastIssued = env]
    IN  UNION {IF r.ok THEN {[r.t EXCEPT !.pc = "read_prefix", !.caller = kind]}
                       ELSE pipeline_raise(r.t, "OSError") :
                r \in send(t1, env)}

\* SocketCoordinate.to_dict (lines 173-178)
to_dict(c) == <<c.x, c.y, c.z>>

\* SocketLoadedMesh.from_dict / __init__ (lines 26-32, 45-56)
from_dict(t, data) ==
    LET m == Len(t.meshes) + 1
        c == Len(t.coords) + 1
    IN  [t EXCEPT !.coords = Append(@, [x |-> data.translation[1],
                                        y |-> data.translation[2],
                                        z |-> data.translation[3],
                                        change_callback |-> m, by |-> "__init__"]),
                  !.meshes = Append(@, [name |-> data.name, translation |-> c])]

\* send_request's read_next returned m (line 219), then its caller:
\* SocketEngine.load_gltf (line 115) or _translation_changed (lines 58-63)
send_request_return(t, m) ==
    IF m = None
    THEN pipeline_raise(t, "TypeError")
    ELSE LET t1 == [t EXCEPT !.pc = "pipeline", !.caller = ""]
         IN  IF t.caller = "load_gltf"
             THEN IF m.data.k # "object"
                  THEN pipeline_raise(t1, "KeyError")
                  ELSE {from_dict(t1, m.data)}
             ELSE {t1}

\* read_next returns m to its caller (run, line 255; send_request, line 219)
read_next_return(t, m) ==
    IF t.caller = "run" THEN on_request(t, m) ELSE send_request_return(t, m)

\* read_next raises e into its caller
read_next_raise(t, e) ==
    IF t.caller = "run" THEN {run_finally(t, e)} ELSE pipeline_raise(t, e)

\* socket.recv(n): the number of bytes it may return
RecvSizes(n) == IF inbuf = <<>> THEN {0} ELSE 1..Min(n, Len(inbuf))

\* client_socket.close() discards what was received and not read
Unread(t, rest) == IF t.sock = "closed" THEN <<>> ELSE rest

\* ClientHandler.read_next, lines 265-270 (and 273-275 when the loop is skipped)
ReadNextPrefix ==
    /\ UNCHANGED mainVars
    /\ pc = "read_prefix"
    /\ inbuf # <<>> \/ peerClosed
    /\ \E k \in RecvSizes(PrefixLen) :
        LET data == Take(inbuf, k) IN
        IF Len(data) < PrefixLen
        THEN /\ \E t \in read_next_return([Cur EXCEPT !.sock = "closed"], None) :
                    Apply(t) /\ inbuf' = Unread(t, Drop(inbuf, k))
             /\ lastRead' = None
             /\ UNCHANGED readVars
        ELSE IF struct_unpack(data) <= 0
        THEN /\ \E t \in read_next_raise(Cur, "JSONDecodeError") :
                    Apply(t) /\ inbuf' = Unread(t, Drop(inbuf, k))
             /\ lastRead' = JSONDecodeError
             /\ UNCHANGED readVars
        ELSE /\ pc' = "read_payload"
             /\ inbuf' = Drop(inbuf, k)
             /\ message_length' = struct_unpack(data)
             /\ message_data' = <<>>
             /\ UNCHANGED <<lastRead, caller, sock, out, exc, pipeline,
                            message, nIssued, lastIssued, heapVars>>
    /\ UNCHANGED <<inflight, peerClosed, peerFrames, lateRequests>>

\* ClientHandler.read_next, one turn of the loop (lines 271-272), and lines
\* 273-275 once the declared length is reached
ReadNextPayload ==
    /\ UNCHANGED mainVars
    /\ pc = "read_payload"
    /\ inbuf # <<>> \/ peerClosed
    /\ \E k \in RecvSizes(message_length - Len(message_data)) :
        LET md == message_data \o Take(inbuf, k) IN
        IF Len(md) < message_length
        THEN /\ message_data' = md
             /\ inbuf' = Drop(inbuf, k)
             /\ UNCHANGED <<message_length, lastRead, pc, caller, sock,
                            out, exc, pipeline, message, nIssued, lastIssued,
                            heapVars>>
        ELSE /\ IF json_loads(md) = JSONDecodeError
                THEN \E t \in read_next_raise(Cur, "JSONDecodeError") :
                        Apply(t) /\ inbuf' = Unread(t, Drop(inbuf, k))
                ELSE \E t \in read_next_return(Cur, json_loads(md)) :
                        Apply(t) /\ inbuf' = Unread(t, Drop(inbuf, k))
             /\ lastRead' = json_loads(md)
             /\ message_length' = 0
             /\ message_data' = <<>>
    /\ UNCHANGED <<inflight, peerClosed, peerFrames, lateRequests>>

(* ------------------- the pipeline's calls, inside broomrocket.run ----- *)
\* SocketLoadedMesh._translation_changed of mesh m (lines 58-63)
translation_changed(t, m) ==
    send_request(t, MoveData(t.meshes[m].name,
                             to_dict(t.coords[t.meshes[m].translation])),
                 "move_mesh")

\* a SocketCoordinate setter's tail (lines 146-147, 156-157, 166-167); every
\* SocketCoordinate this program creates has its change_callback set
changed(t, c) == translation_changed(t, t.coords[c].change_callback)

\* an x setter that calls the hook before it stores the value
set_x_hook_first(t, c, v) ==
    {IF r.pc = "read_prefix" THEN [r EXCEPT !.coords[c].x = v] ELSE r : r \in changed(t, c)}

\* SocketCoordinate.x setter (lines 143-147)
set_x(t, c, v) == changed([t EXCEPT !.coords[c].x = v], c)
\* SocketCoordinate.y setter (lines 153-157)
set_y(t, c, v) == changed([t EXCEPT !.coords[c].y = v], c)
\* SocketCoordinate.z setter (lines 163-167)
set_z(t, c, v) == changed([t EXCEPT !.coords[c].z = v], c)

\* a translation setter that notifies without installing the new coordinate
set_translation_keeps_old(t, m, tr) == translation_changed(t, m)

\* SocketLoadedMesh.translation setter (lines 73-84)
set_translation(t, m, tr) ==
    LET c == Len(t.coords) + 1
        t1 == [t EXCEPT !.coords = Append(@, [x |-> tr[1], y |-> tr[2], z |-> tr[3],
                                              change_callback |-> m, by |-> "setter"]),
                        !.meshes[m].translation = c]
    IN  translation_changed(t1, m)

InPipeline == pc = "pipeline"
MayRequest == InPipeline /\ nIssued < MaxRequests

\* SocketEngine.load_gltf up to the wait for the response (lines 109-114)
LoadGltf(n) ==
    /\ UNCHANGED mainVars
    /\ MayRequest
    /\ Len(coords) < MaxCoords
    /\ \E t \in send_request(Cur, LoadData(n), "load_gltf") : Apply(t)
    /\ lastRead' = Waiting
    /\ inflight' = None
    /\ UNCHANGED <<inbuf, peerClosed, peerFrames, lateRequests, readVars>>

SetX(c, v) ==
    /\ UNCHANGED mainVars
    /\ MayRequest
    /\ c \in 1..Len(coords)
    /\ \E t \in set_x(Cur, c, v) : Apply(t)
    /\ lastRead' = Waiting
    /\ inflight' = None
    /\ UNCHANGED <<inbuf, peerClosed, peerFrames, lateRequests, readVars>>

SetY(c, v) ==
    /\ UNCHANGED mainVars
    /\ MayRequest
    /\ c \in 1..Len(coords)
    /\ \E t \in set_y(Cur, c, v) : Apply(t)
    /\ lastRead' = Waiting
    /\ inflight' = None
    /\ UNCHANGED <<inbuf, peerClosed, peerFrames, lateRequests, readVars>>

SetZ(c, v) ==
    /\ UNCHANGED mainVars
    /\ MayRequest
    /\ c \in 1..Len(coords)
    /\ \E t \in set_z(Cur, c, v) : Apply(t)
    /\ lastRead' = Waiting
    /\ inflight' = None
    /\ UNCHANGED <<inbuf, peerClosed, peerFrames, lateRequests, readVars>>

SetTranslation(m, tr) ==
    /\ UNCHANGED mainVars
    /\ MayRequest
    /\ m \in 1..Len(meshes)
    /\ Len(coords) < MaxCoords
    /\ \E t \in set_translation(Cur, m, tr) : Apply(t)
    /\ lastRead' = Waiting
    /\ inflight' = None
    /\ UNCHANGED <<inbuf, peerClosed, peerFrames, lateRequests, readVars>>

\* broomrocket.run returns; on_request answers and run ends (lines 229-233, 256-257)
PipelineReturn ==
    /\ UNCHANGED mainVars
    /\ InPipeline
    /\ \E t \in on_request_return(Cur) : Apply(t)
    /\ UNCHANGED <<peerVars, readVars, lastRead>>

\* broomrocket.run raises an error of its own (lines 234-241, 256-257)
PipelineRaise ==
    /\ UNCHANGED mainVars
    /\ InPipeline
    /\ \E t \in pipeline_raise(Cur, "PipelineError") : Apply(t)
    /\ UNCHANGED <<peerVars, readVars, lastRead>>

\* the longest frame of an envelope of this model: a move_mesh request
MaxFrameLen == Len(Frame(Envelope("request", 0, MoveData("a", Origin))))

Peer ==
    \/ \E env \in PeerEnvelopes : PeerSend(env)
    \/ \E env \in CutEnvelopes : \E k \in 1..MaxFrameLen : PeerSendTruncated(env, k)
    \/ \E env \in PeerEnvelopes : PeerSendLate(env)
    \/ \E n \in {0, -1} : PeerSendEmpty(n)
    \/ PeerClose

Thread ==
    \/ ReadNextPrefix
    \/ ReadNextPayload
    \/ \E n \in LoadNames : LoadGltf(n)
    \/ \E c \in 1..MaxCoords : \E v \in Vals : SetX(c, v)
    \/ \E c \in 1..MaxCoords : \E v \in Vals : SetY(c, v)
    \/ \E c \in 1..MaxCoords : \E v \in Vals : SetZ(c, v)
    \/ \E m \in 1..MaxCoords : \E tr \in Coordinates : SetTranslation(m, tr)
    \/ PipelineReturn
    \/ PipelineRaise

Next == Peer \/ Thread

Spec == Init /\ [][Next]_vars

\* The thread is scheduled whenever it can run.
FairSpec == Spec /\ WF_vars(Thread)
(* ----------------- several connections: main and its threads ---------- *)
\* Several ClientHandler threads at once, each step one whole frame.  What is
\* on a socket carries, beside the envelope, who put it there: `conn`, the
\* socket the peer wrote it to, or `by`, the thread whose code sent it.

\* MessageHandler.__init__ (lines 184-210): the writer, the reader, and the
\* SocketEngine(self) of its Broomrocket, for the handler that becomes number h
MessageHandler_init(message_writer, message_reader, h) ==
    [message_writer |-> message_writer, message_reader |-> message_reader,
     engine |-> h]

\* a ClientHandler that takes the MessageHandler the first one created
ClientHandler_init_shared(client_socket) ==
    [thread |-> [client_socket |-> client_socket,
                 message_handler |-> 1,
                 pc |-> "run", message |-> None, got |-> None, n |-> 0],
     handlers |-> IF handlers = <<>>
                  THEN <<MessageHandler_init(1, 1, 1)>>
                  ELSE handlers]

\* ClientHandler.__init__ (lines 248-251): the thread that becomes number
\* Len(threads) + 1 and its own MessageHandler(self, self)
ClientHandler_init(client_socket) ==
    LET i == Len(threads) + 1
        h == Len(handlers) + 1
    IN  [thread |-> [client_socket |-> client_socket,
                     message_handler |-> h,
                     pc |-> "run", message |-> None, got |-> None, n |-> 0],
         handlers |-> Append(handlers, MessageHandler_init(i, i, h))]

\* main's loop (lines 290-294): accept, construct, start, append
Accept ==
    /\ Len(threads) < MaxSessions
    /\ LET new == ClientHandler_init(Len(sockets) + 1) IN
        /\ threads' = Append(threads, new.thread)
        /\ handlers' = new.handlers
    /\ sockets' = Append(sockets, [toServer |-> <<>>, toPeer |-> <<>>,
                                   closed |-> FALSE, peerClosed |-> FALSE,
                                   sent |-> 0])
    /\ UNCHANGED sessionVars

\* the thread whose reads take from socket k waits for a frame
Awaited(k) ==
    \E i \in 1..Len(threads) :
        /\ threads[i].pc \in {"run", "wait"}
        /\ threads[handlers[handlers[threads[i].message_handler].engine].message_reader]
                .client_socket = k

SessionPeerData == {RunData, ObjectData("a", Origin)}

\* the peer of connection k writes one whole frame
SessionPeerSend(k, env) ==
    /\ k \in 1..Len(sockets)
    /\ ~sockets[k].closed /\ ~sockets[k].peerClosed
    /\ sockets[k].toServer = <<>>
    /\ sockets[k].sent < MaxNested + 1
    /\ Awaited(k)
    /\ sockets' = [sockets EXCEPT ![k].toServer = <<[env |-> env, conn |-> k]>>,
                                  ![k].sent = @ + 1]
    /\ UNCHANGED <<sessionVars, threads, handlers>>

\* the peer of connection k closes it; as for a frame, the thread finds out
\* at its next recv
SessionPeerClose(k) ==
    /\ k \in 1..Len(sockets)
    /\ ~sockets[k].closed /\ ~sockets[k].peerClosed
    /\ sockets[k].toServer = <<>>
    /\ Awaited(k)
    /\ sockets' = [sockets EXCEPT ![k].peerClosed = TRUE]
    /\ UNCHANGED <<sessionVars, threads, handlers>>

\* ClientHandler.send of thread w (lines 259-262), called by thread i: the
\* sockets afterwards, and whether the send went through
SendOn(ss, w, i, env) ==
    LET k == threads[w].client_socket IN
    IF ss[k].closed
    THEN {[ss |-> ss, ok |-> FALSE]}
    ELSE {[ss |-> [ss EXCEPT ![k].toPeer = Append(@, [env |-> env, by |-> i])],
           ok |-> TRUE]}
         \cup (IF ss[k].peerClosed THEN {[ss |-> ss, ok |-> FALSE]} ELSE {})

\* the rest of on_request of thread i once the pipeline is over (lines
\* 229-241) and run's finally clause (lines 256-257): the response goes to the
\* message_writer of the thread's MessageHandler and carries the id of the
\* message m on_request was called with, the thread's own client_socket is
\* closed
Answer(ss, i, m, data) ==
    LET w == handlers[threads[i].message_handler].message_writer
        own == threads[i].client_socket
    IN  {[ss |-> [r.ss EXCEPT ![own].closed = TRUE, ![own].toServer = <<>>],
          pc |-> IF r.ok THEN "done" ELSE "raised"] :
            r \in SendOn(ss, w, i, Envelope("response", m.env.id, data))}

\* ClientHandler.read_next of thread r (lines 264-275): the frame it returns,
\* None when the peer has closed
Received(ss, r) ==
    LET k == threads[r].client_socket IN
    IF ss[k].toServer # <<>> THEN Head(ss[k].toServer) ELSE None

Taken(ss, r) ==
    LET k == threads[r].client_socket IN
    IF ss[k].toServer # <<>>
    THEN [ss EXCEPT ![k].toServer = Tail(@)]
    ELSE [ss EXCEPT ![k].closed = TRUE]

\* a recv on the socket of thread r returns: a frame is there or the peer
\* has closed (a recv on a socket closed on this side raises at once)
MayReceive(r) ==
    LET k == threads[r].client_socket IN
    \/ sockets[k].closed
    \/ sockets[k].toServer # <<>>
    \/ sockets[k].peerClosed

\* thread i ends: run's finally clause alone (lines 256-257)
Finish(ss, i, p) ==
    LET own == threads[i].client_socket IN
    /\ sockets' = [ss EXCEPT ![own].closed = TRUE, ![own].toServer = <<>>]
    /\ threads' = [threads EXCEPT ![i].pc = p]

\* thread i answers its request with `data` and ends
AnswerAndFinish(ss, i, data) ==
    \E a \in Answer(ss, i, threads[i].message, data) :
        /\ sockets' = a.ss
        /\ threads' = [threads EXCEPT ![i].pc = a.pc]

\* ClientHandler.run up to the start of the pipeline (lines 253-255, 221-228)
SessionRun(i) ==
    /\ i \in 1..Len(threads)
    /\ threads[i].pc = "run"
    /\ MayReceive(i)
    /\ LET own == threads[i].client_socket
           m == Received(sockets, i)
       IN  IF sockets[own].closed
           THEN Finish(sockets, i, "raised")
           ELSE IF m = None
           THEN Finish(Taken(sockets, i), i, "raised")
           ELSE IF m.env.data # RunData
           THEN \E a \in Answer(Taken(sockets, i), i, m, ResultData("error", "KeyError")) :
                    /\ sockets' = a.ss
                    /\ threads' = [threads EXCEPT ![i].pc = a.pc, ![i].message = m]
           ELSE /\ sockets' = Taken(sockets, i)
                /\ threads' = [threads EXCEPT ![i].pc = "pipeline", ![i].message = m]
    /\ UNCHANGED <<sessionVars, handlers>>

\* the MessageHandler the engine of thread i's pipeline calls (line 110)
EngineHandler(i) == handlers[threads[i].message_handler].engine

\* SocketEngine.load_gltf of thread i's pipeline up to the wait for the
\* response (lines 109-114, 212-218)
SessionRequest(i) ==
    /\ i \in 1..Len(threads)
    /\ threads[i].pc = "pipeline"
    /\ threads[i].n < MaxNested
    /\ LET w == handlers[EngineHandler(i)].message_writer
           env == Envelope("request", <<i, threads[i].n + 1>>, LoadData("a"))
       IN  \E r \in SendOn(sockets, w, i, env) :
            IF r.ok
            THEN /\ sockets' = r.ss
                 /\ threads' = [threads EXCEPT ![i].pc = "wait", ![i].n = @ + 1,
                                               ![i].got = None]
            ELSE AnswerAndFinish(r.ss, i, ResultData("error", "OSError"))
    /\ UNCHANGED <<sessionVars, handlers>>

\* send_request's read_next returns to load_gltf (lines 219, 115)
SessionResponse(i) ==
    /\ i \in 1..Len(threads)
    /\ threads[i].pc = "wait"
    /\ LET r == handlers[EngineHandler(i)].message_reader
           m == Received(sockets, r)
       IN  /\ MayReceive(r)
           /\ IF sockets[threads[r].client_socket].closed
              THEN AnswerAndFinish(sockets, i, ResultData("error", "OSError"))
              ELSE IF m = None
              THEN AnswerAndFinish(Taken(sockets, r), i, ResultData("error", "TypeError"))
              ELSE IF m.env.data.k # "object"
              THEN \E a \in Answer(Taken(sockets, r), i, threads[i].message,
                                   ResultData("error", "KeyError")) :
                    /\ sockets' = a.ss
                    /\ threads' = [threads EXCEPT ![i].pc = a.pc, ![i].got = m]
              ELSE /\ sockets' = Taken(sockets, r)
                   /\ threads' = [threads EXCEPT ![i].pc = "pipeline", ![i].got = m]
    /\ UNCHANGED <<sessionVars, handlers>>

\* broomrocket.run of thread i returns or raises; on_request answers and run
\* ends (lines 229-241, 256-257)
SessionReturn(i) ==
    /\ i \in 1..Len(threads)
    /\ threads[i].pc = "pipeline"
    /\ \E data \in {ResultData("ok", "Executed successfully."),
                    ResultData("error", "PipelineError")} :
            AnswerAndFinish(sockets, i, data)
    /\ UNCHANGED <<sessionVars, handlers>>

MainNext ==
    \/ Accept
    \/ \E k \in 1..MaxSessions : \E t \in {"request", "response"} :
         \E d \in SessionPeerData : SessionPeerSend(k, Envelope(t, 0, d))
    \/ \E k \in 1..MaxSessions : SessionPeerClose(k)
    \/ \E i \in 1..MaxSessions : SessionRun(i)
    \/ \E i \in 1..MaxSessions : SessionRequest(i)
    \/ \E i \in 1..MaxSessions : SessionResponse(i)
    \/ \E i \in 1..MaxSessions : SessionReturn(i)

\* main with its threads; every thread is a process of its own
MainSpec == Init /\ [][MainNext]_vars
(* ------------------------------ observations -------------------------- *)
\* the whole frames among the bytes written to the connection, decoded
RECURSIVE Frames(_)
Frames(b) ==
    IF Len(b) < PrefixLen
    THEN <<>>
    ELSE LET n == struct_unpack(Take(b, PrefixLen)) IN
         IF n < 0 \/ Len(b) < PrefixLen + n
         THEN <<>>
         ELSE <<json_loads(SubSeq(b, PrefixLen + 1, PrefixLen + n))>>
              \o Frames(Drop(b, PrefixLen + n))

IsResponse(e) == e.type = "response"
IsRequest(e) == e.type = "request"
Responses == SelectSeq(Frames(out), IsResponse)
Requests == SelectSeq(Frames(out), IsRequest)

Ended == pc \in {"done", "raised"}
IsEnvelope(m) == m \notin {Waiting, None, JSONDecodeError}
\* read_next has handed an envelope to a waiting send_request call
Returned == nIssued > 0 /\ IsEnvelope(lastRead)
\* on_request was entered with an envelope of type "request" and has ended
Handled == Ended /\ message # None /\ message.type = "request"

(* -------------------------------- claims ------------------------------ *)
\* C1 (as claimed): a send_request call that returns a value returns the data
\* of an envelope whose id is the id of the request envelope the call wrote.
C1_Correlation == Returned => lastRead.id = lastIssued.id

\* the response on_request owes to `message`: ok after a pipeline run that
\* returned, error with the failure's description otherwise
ExpectedData ==
    IF pipeline = "ok"
    THEN ResultData("ok", "Executed successfully.")
    ELSE ResultData("error", IF pipeline = "none" THEN "KeyError" ELSE pipeline)

\* C2 (as claimed): for every inbound request envelope with id i, on_request
\* writes a response envelope with id i, ok when the pipeline run succeeded and
\* error with the failure description when it raised, and no exception leaves
\* on_request.
C2_Original ==
    Handled => /\ exc = ""
               /\ Responses = <<Envelope("response", message.id, ExpectedData)>>

\* C2 (amended): the same, unless a send of the response raises; then the
\* OSError of the send, and nothing else, leaves on_request and no response
\* envelope has been written.
C2_InboundRequest ==
    Handled => /\ exc \in {"", "OSError"}
               /\ exc = "" => Responses = <<Envelope("response", message.id, ExpectedData)>>
               /\ exc = "OSError" => Responses = <<>>

\* C2 witness: a request with id 9 whose pipeline run made a request of its
\* own and then raised has been answered.
C2_Witness ==
    /\ Handled
    /\ exc = ""
    /\ message.id = 9
    /\ nIssued > 0
    /\ pipeline = "PipelineError"
\* the meshes whose translation is coordinate c
HeldBy(c) == {m \in 1..Len(meshes) : meshes[m].translation = c}

\* this step issues exactly one request, a move_mesh for mesh m carrying xyz,
\* and writes its frame (unless the send raises, which ends the run)
MoveIssued(m, xyz) ==
    /\ nIssued' = nIssued + 1
    /\ lastIssued'.type = "request"
    /\ lastIssued'.data = MoveData(meshes[m].name, xyz)
    /\ ~peerClosed => pc' = "read_prefix"
    /\ IF pc' = "read_prefix"
       THEN out' = out \o Frame(lastIssued')
       ELSE peerClosed /\ pc' = "raised" /\ Frames(out') = Frames(out)

\* a write on coordinate c, leaving it at xyz, is forwarded for the mesh
\* holding c
WriteForwarded(c, xyz) ==
    /\ \A m \in HeldBy(c) : MoveIssued(m, xyz)
    /\ pc' = "read_prefix" => to_dict(coords'[c]) = xyz /\ meshes' = meshes

WritesForwarded(c, v) ==
    /\ SetX(c, v) => WriteForwarded(c, <<v, coords[c].y, coords[c].z>>)
    /\ SetY(c, v) => WriteForwarded(c, <<coords[c].x, v, coords[c].z>>)
    /\ SetZ(c, v) => WriteForwarded(c, <<coords[c].x, coords[c].y, v>>)

\* C3: every write of x, y or z on the coordinate a SocketLoadedMesh holds
\* stores the value and, in the same step, issues exactly one move_mesh
\* request with that mesh's name and the coordinate's value after the write.
\* (Writes happen while the pipeline runs.)
C3_ComponentWrite ==
    [][InPipeline =>
        \A c \in 1..MaxCoords : \A v \in Vals :
            HeldBy(c) # {} => WritesForwarded(c, v)]_vars

\* C3 witness: two component writes on the coordinate a mesh was loaded with
\* have been forwarded, the second carrying both written values.
C3_Witness ==
    /\ pc = "read_prefix"
    /\ nIssued = 3
    /\ Len(coords) = 1
    /\ to_dict(coords[1]) = <<5, 5, 0>>
    /\ lastIssued.data = MoveData(meshes[1].name, <<5, 5, 0>>)
    /\ meshes[1].name = "b"

\* C4: assigning a coordinate to SocketLoadedMesh.translation issues exactly
\* one move_mesh request, carrying the assigned value, and installs a new
\* coordinate hooked to the mesh; a component write on a coordinate installed
\* that way issues exactly one further request with the updated value.
C4_Assignment ==
    [][InPipeline =>
       /\ \A m \in 1..MaxCoords : \A tr \in Coordinates :
            SetTranslation(m, tr) =>
                /\ MoveIssued(m, tr)
                /\ pc' = "read_prefix" =>
                    /\ Len(coords') = Len(coords) + 1
                    /\ meshes'[m].translation = Len(coords')
                    /\ to_dict(coords'[Len(coords')]) = tr
                    /\ coords'[Len(coords')].change_callback = m
       /\ \A c \in 1..MaxCoords : \A v \in Vals :
            (HeldBy(c) # {} /\ coords[c].by = "setter") => WritesForwarded(c, v)]_vars

\* C4 witness: a mesh loaded at the origin was assigned (1, 2, 3), then x of
\* the new coordinate was written, and the request for (5, 2, 3) is out.
C4_Witness ==
    /\ pc = "read_prefix"
    /\ nIssued = 3
    /\ Len(meshes) = 1
    /\ meshes[1].translation = 2
    /\ to_dict(coords[2]) = <<5, 2, 3>>
    /\ lastIssued.data = MoveData(meshes[1].name, <<5, 2, 3>>)
    /\ Len(Requests) = 3
\* read_next is in its receive loop
InLoop == pc = "read_payload"
\* a send_request call waits in read_next for its response
Pending == pc \in {"read_prefix", "read_payload"} /\ caller # "run"

\* C5 (as claimed): when the peer has closed after a length prefix and before
\* the declared payload is complete, read_next terminates.
C5_TruncatedTerminates == (InLoop /\ peerClosed) ~> ~InLoop

\* C6 (as claimed): when the connection has ended while a send_request call
\* waits and no whole frame is left for it, the call ends with an error, which
\* in this program ends the run.
C6_PendingReleased == (Pending /\ peerClosed /\ inflight = None) ~> Ended

\* C7 (as claimed): when the peer closes before it has sent any byte, run
\* ends normally: no exception leaves run and no frame is written.
C7_CleanEnd == (Ended /\ peerClosed /\ peerFrames = 0) => (exc = "" /\ out = <<>>)

\* C8 (as claimed): a response envelope that arrives while no request of this
\* side is outstanding is ignored: the session goes on, nothing is raised, the
\* pipeline is not invoked and no frame is written.
C8_OrphanIgnored ==
    (nIssued = 0 /\ IsEnvelope(lastRead) /\ lastRead.type = "response")
        => (~Ended /\ exc = "" /\ pipeline = "none" /\ out = <<>>)

\* C9 (as claimed): after an inbound request has been answered the session
\* still decodes: no request the peer sends on the connection, while it keeps
\* the connection open, reaches a session that has already ended.
C9_ReceiveLoop == (Handled /\ exc = "" /\ pipeline = "ok") => lateRequests = 0

\* C10 (as claimed): a frame written as ClientHandler.send writes it and
\* delivered in any split into chunks is decoded by read_next to the envelope
\* that was sent.
C10_RoundTrip == (inflight # None /\ lastRead # Waiting) => lastRead = inflight

\* the bytes of `b` left after its leading whole, well-formed frames
RECURSIVE Leftover(_)
Leftover(b) ==
    IF Len(b) < PrefixLen
    THEN b
    ELSE LET n == struct_unpack(Take(b, PrefixLen)) IN
         IF n < 0 \/ Len(b) < PrefixLen + n
            \/ json_loads(SubSeq(b, PrefixLen + 1, PrefixLen + n)) = JSONDecodeError
         THEN b
         ELSE Leftover(Drop(b, PrefixLen + n))

C13_DispatchByKind ==
    /\ Returned => lastRead.type = "response"
    /\ pipeline # "none" => message.type = "request"

\* C14: for every id, at most one response envelope with that id is written on
\* the connection, on every path through on_request, the one where the send of
\* the success response raises included.
C14_OneResponse ==
    \A i, j \in 1..Len(Responses) : Responses[i].id = Responses[j].id => i = j

\* C14 witness: the pipeline returned, the send of the success response raised
\* after its prefix was written, and the except clause has run.
C14_Witness ==
    /\ Handled
    /\ pipeline = "ok"
    /\ exc = "OSError"
    /\ Leftover(out) # <<>>
    /\ Len(Requests) = 1

\* coordinate c exists and is the translation of no mesh: a mesh held it
\* before a whole-coordinate assignment replaced it
Replaced(c) == c \in 1..Len(coords) /\ HeldBy(c) = {}

\* C15 (as claimed): after a whole-coordinate assignment the coordinate the
\* mesh held before is no longer hooked to the mesh: a component write on it
\* issues no request.
C15_HookFollowsCurrent ==
    [][\A c \in 1..MaxCoords : \A v \in Vals :
            (Replaced(c) /\ (SetX(c, v) \/ SetY(c, v) \/ SetZ(c, v)))
                => (nIssued' = nIssued /\ Frames(out') = Frames(out))]_vars

\* the request last written by send_request has had no frame read for it yet
Outstanding == nIssued > 0 /\ lastRead = Waiting /\ ~Ended

\* C16: at most one outbound request is outstanding at any time: a request is
\* issued only when none is outstanding; and a response to the inbound request
\* is written only when the read_next of every nested request has ended, with
\* a frame or with a failure.  A step that writes bytes either issues a
\* request and writes (at most) its frame, or writes (at most) the response.
C16_Sequential ==
    [][/\ nIssued' # nIssued =>
            /\ nIssued' = nIssued + 1
            /\ ~Outstanding
            /\ out' \in {out, out \o Take(Frame(lastIssued'), PrefixLen),
                         out \o Frame(lastIssued')}
       /\ (nIssued' = nIssued /\ out' # out) =>
            /\ lastRead' # Waiting
            /\ ~Outstanding'
            /\ \E d \in {ExpectedData', ResultData("ok", "Executed successfully.")} :
                 out' \in {out \o Frame(Envelope("response", message'.id, d)),
                           out \o Take(Frame(Envelope("response", message'.id, d)),
                                       PrefixLen)}]_vars

\* C16 witness: the inbound request was answered after two nested requests,
\* each of which had received its frame.
C16_Witness ==
    /\ Handled
    /\ exc = ""
    /\ pipeline = "ok"
    /\ nIssued = 2
    /\ Len(Requests) = 2
    /\ Len(Responses) = 1
    /\ IsEnvelope(lastRead)

\* C17 (as claimed): every call of send_request writes exactly one request
\* envelope, whatever the outcome of the call.
C17_Original == Len(Requests) = nIssued

\* C17 (amended): a call of send_request writes its request envelope once, or
\* not at all when its send raises (the call then ends with that OSError);
\* no step other than the call writes a request, and no request envelope is
\* written a second time.
C17_NoRetries ==
    [][/\ nIssued' = nIssued + 1 =>
            IF pc' = "read_prefix"
            THEN out' = out \o Frame(lastIssued')
            ELSE /\ out' \in {out, out \o Take(Frame(lastIssued'), PrefixLen)}
                 /\ pc' = "raised"
                 /\ exc' = "OSError"
       /\ nIssued' # nIssued =>
            /\ nIssued' = nIssued + 1
            /\ lastIssued'.type = "request"
            /\ lastIssued'.id = nIssued'
       /\ nIssued' = nIssued => lastIssued' = lastIssued]_vars

\* C17 witness: three calls of send_request, three different request envelopes
\* on the connection, the last call still waiting.
C17_Witness ==
    /\ nIssued = 3
    /\ Outstanding
    /\ Len(Requests) = 3
    /\ \A i, j \in 1..3 : Requests[i] = Requests[j] => i = j
    /\ Requests[3] = lastIssued

\* C18: whenever run has finished, by return or by an exception raised while
\* reading or handling the request, client_socket is closed, and nothing is
\* written to it afterwards.
C18_SocketReleased ==
    [][/\ Ended' => sock' = "closed"
       /\ Ended => (out' = out /\ sock' = "closed")]_vars

\* C18 witness: run ended with the exception json.loads raised in read_next,
\* after the peer had sent a frame and stayed connected.
C18_Witness ==
    /\ Ended
    /\ exc = "JSONDecodeError"
    /\ sock = "closed"
    /\ ~peerClosed
    /\ peerFrames > 0

\* the thread that owns socket k: main gave it to that thread's constructor
Owner(k) == CHOOSE i \in 1..Len(threads) : threads[i].client_socket = k

\* C12: with several connections served at once, each session has its own
\* MessageHandler and socket; a frame received on one connection is never
\* handed to run or to a send_request call of another connection's thread, and
\* what a thread sends is written to its own connection only.
C12_Isolation ==
    /\ \A i, j \in 1..Len(threads) :
            i # j => /\ threads[i].client_socket # threads[j].client_socket
                     /\ threads[i].message_handler # threads[j].message_handler
    /\ \A i \in 1..Len(threads) :
            /\ handlers[threads[i].message_handler].message_writer = i
            /\ handlers[threads[i].message_handler].message_reader = i
            /\ threads[i].got # None => threads[i].got.conn = threads[i].client_socket
            /\ threads[i].message # None =>
                    threads[i].message.conn = threads[i].client_socket
    /\ \A k \in 1..Len(sockets) :
            \A x \in 1..Len(sockets[k].toPeer) :
                /\ sockets[k].toPeer[x].by = Owner(k)
                /\ sockets[k].toPeer[x].env.type = "request" =>
                        sockets[k].toPeer[x].env.id[1] = Owner(k)

\* C12 witness: two threads have each made a request on their own connection;
\* the first has its response and has answered while the second still waits.
C12_Witness ==
    /\ Len(threads) = 2
    /\ threads[1].pc = "done"
    /\ threads[1].got # None
    /\ Len(sockets[1].toPeer) = 2
    /\ threads[2].pc = "wait"
    /\ Len(sockets[2].toPeer) = 1
====
